---- MODULE Spec2Model ----
(***************************************************************************)
(* The DQN / CategoricalDQN learner of rlpyt (rlpyt/algos/dqn/dqn.py and   *)
(* cat_dqn.py) as a state machine: construction, initialize /              *)
(* async_initialize / optim_initialize, and optimize_agent with every call *)
(* it makes on the replay buffer, the optimizer and the agent.             *)
(*                                                                         *)
(* Real numbers are kept exact.  Values of the DQN loss are integers over  *)
(* the common denominator Scale = den(discount)^n_step_return; beta is a   *)
(* fraction <<num, den>>; KL divergences, which range from 1e-6 to 1e6,    *)
(* are one-digit decimals [m, e] standing for m * 10^e.  An optional value *)
(* (Python None) is <<>> and a present value v is <<v>>.                    *)
(***************************************************************************)
EXTENDS Integers, Sequences, FiniteSets, TLC

(***************************************************************************)
(* Bounds of the model.                                                    *)
(***************************************************************************)
MaxItr == 4            \* iterations (itr, sampler_itr) range over 0..MaxItr
MaxCalls == 3          \* optimize_agent calls of one asynchronous run
RingT == 4             \* time slots of the replay ring
ChunkT == 2            \* time slots one append_samples call writes
MaxAppends == 3        \* append_samples calls of one asynchronous run
MaxSteps == 4          \* step calls of the R2D1 agent
RnnLayers == 1         \* N of a recurrent state [N,B,H]
EnvB == 2              \* B of a recurrent state [N,B,H]
MaxFill == 3           \* distinct non-zero recurrent states the model returns

None == <<>>
Some(v) == <<v>>
IsNone(o) == o = <<>>
Val(o) == o[1]

Max2(a, b) == IF a >= b THEN a ELSE b
Min2(a, b) == IF a <= b THEN a ELSE b
Abs(x) == IF x < 0 THEN -x ELSE x

RECURSIVE Pow(_, _)
Pow(b, n) == IF n = 0 THEN 1 ELSE b * Pow(b, n - 1)

\* Python's round() of the quotient a / b (a >= 0, b > 0): ties go to the even
\* neighbour.
PyRound(a, b) ==
    LET fl == a \div b
        r2 == 2 * (a % b)
    IN  IF r2 < b THEN fl
        ELSE IF r2 > b THEN fl + 1
        ELSE IF fl % 2 = 0 THEN fl ELSE fl + 1

(***************************************************************************)
(* One-digit decimals [m, e] = m * 10^e, m in -9..9; zero is [0, 0].       *)
(***************************************************************************)
Dec(m, e) == [m |-> m, e |-> e]
DZero == Dec(0, 0)
DLess(a, b) ==
    IF a.m = 0 THEN b.m > 0
    ELSE IF b.m = 0 THEN a.m < 0
    ELSE IF a.m > 0 /\ b.m < 0 THEN FALSE
    ELSE IF a.m < 0 /\ b.m > 0 THEN TRUE
    ELSE IF a.m > 0 THEN a.e < b.e \/ (a.e = b.e /\ a.m < b.m)
    ELSE a.e > b.e \/ (a.e = b.e /\ a.m < b.m)
\* torch.clamp(x, lo, hi)
DClamp(x, lo, hi) == IF DLess(x, lo) THEN lo ELSE IF DLess(hi, x) THEN hi ELSE x
\* x * valid, valid in {0, 1}
DTimes(x, valid) == IF valid = 0 THEN DZero ELSE x

\* cat_dqn.py: EPS = 1e-6, and 1 / EPS
EPS == Dec(1, -6)
InvEPS == Dec(1, 6)

(***************************************************************************)
(* Constructor arguments.  ProtocolConfigs vary what decides the sequence  *)
(* of calls optimize_agent makes, with the loss hyperparameters at their   *)
(* defaults; LossConfigs vary the loss hyperparameters with one update per *)
(* call.  pri_beta_init and pri_beta_final are in tenths (0.4 and 1.0).    *)
(***************************************************************************)
Algos == {"DQN", "CategoricalDQN"}

DefaultConfig ==
    [ algo |-> "DQN",
      discount |-> <<9, 10>>,
      batch_size |-> 2,
      min_steps_learn |-> 0,
      delta_clip |-> Some(1),
      replay_ratio |-> 1,
      target_update_interval |-> 2,
      n_step_return |-> 1,
      double_dqn |-> FALSE,
      prioritized_replay |-> FALSE,
      pri_beta_init |-> 4,
      pri_beta_final |-> 10,
      pri_beta_steps |-> 3,
      updates_per_sync |-> 1,
      V_min |-> -10,
      V_max |-> 10,
      n_atoms |-> 3 ]

\* (replay_ratio, batch_size, updates_per_sync): the first two decide the
\* updates per call after initialize (0.5, 1, 1.5, 2.5 and 5 times the rounding
\* unit), the third after async_initialize
UpdateSettings == {<<1, 2, 1>>, <<3, 2, 1>>, <<5, 4, 1>>, <<1, 2, 2>>}

\* (prioritized_replay, pri_beta_steps)
ReplaySettings == {<<FALSE, 3>>} \cup {<<TRUE, b>> : b \in 0..3}

ProtocolConfigs ==
    { [DefaultConfig EXCEPT !.algo = a, !.prioritized_replay = p[1],
          !.pri_beta_steps = p[2], !.min_steps_learn = m,
          !.replay_ratio = u[1], !.batch_size = u[2],
          !.updates_per_sync = u[3], !.target_update_interval = t] :
        a \in Algos, p \in ReplaySettings, m \in 0..2, u \in UpdateSettings,
        t \in 2..3 }

LossConfigs ==
    { [DefaultConfig EXCEPT !.algo = a, !.prioritized_replay = p,
          !.delta_clip = c, !.double_dqn = d, !.n_step_return = n,
          !.discount = g, !.min_steps_learn = m] :
        a \in Algos, p \in BOOLEAN, c \in {None, Some(1)}, d \in BOOLEAN,
        n \in 1..2, g \in {<<9, 10>>, <<1, 2>>}, m \in 0..1 }

\* batch_spec.size of the sampler
SamplerBatchSizes == {1, 2}

VARIABLES
    cfg,                  \* the arguments saved by __init__
    stage,                \* "constructed", "async_initialized" or "ready"
    async_,               \* which of initialize / async_initialize ran
    sampler_bs,
    mid_batch_reset,
    updates_per_optimize,
    min_itr_learn,
    pri_beta_itr,         \* None until optim_initialize sets it
    ReplayCls,            \* class of self.replay_buffer
    update_counter,
    beta,                 \* replay_buffer's beta, a fraction; None if uniform
    priorities,           \* errors of the latest update_batch_priorities
    appended,             \* append_samples calls so far
    sample_batches,       \* sample_batch calls so far
    optimizer_steps,      \* optimizer.step() calls so far
    target_updates,       \* agent.update_target calls so far
    pre_optimize_calls,   \* pre_optimize_process calls so far
    call,                 \* the latest optimize_agent call
    replay_buffer,        \* the shared-memory ring async_initialize returns
    r2d1_agent            \* the R2D1 agent: its recurrent state and latest step

vars == << cfg, stage, async_, sampler_bs, mid_batch_reset,
           updates_per_optimize, min_itr_learn, pri_beta_itr, ReplayCls,
           update_counter, beta, priorities, appended, sample_batches,
           optimizer_steps, target_updates, pre_optimize_calls, call,
           replay_buffer, r2d1_agent >>

\* the ring of the replay buffer: its time slots and the buffer as allocated
Slots == 0..(RingT - 1)

EmptyBuffer ==
    [ slots    |-> [t \in Slots |-> 0],
      priority |-> [t \in Slots |-> 0],
      cursor   |-> [t_write |-> 0, wrapped |-> FALSE],
      epoch    |-> 0,
      writer   |-> [pc |-> "idle", written |-> 0],
      reader   |-> [pc |-> "idle", epoch |-> 0, batch |-> {},
                    snap |-> <<>>, copied |-> {}] ]

\* the R2D1 agent before its first step: no recurrent state is stored
NewAgent ==
    [ prev_rnn_state |-> <<>>, steps |-> 0, advances |-> 0, op |-> "none",
      fed |-> <<>>, returned |-> <<>>, agent_info |-> <<>>,
      output |-> <<>> ]

NoCall ==
    [ n |-> 0, itr |-> 0, samples |-> FALSE, log |-> <<>>, result |-> "none",
      opt_info |-> <<>>, batch |-> <<>>, out |-> <<>> ]

\* DQN.__init__ (update_counter = 0); nothing is initialized yet.
Constructed(configs) ==
    /\ cfg \in configs
    /\ stage = "constructed"
    /\ async_ = FALSE
    /\ sampler_bs = 0
    /\ mid_batch_reset = FALSE
    /\ updates_per_optimize = 0
    /\ min_itr_learn = 0
    /\ pri_beta_itr = None
    /\ ReplayCls = "None"
    /\ update_counter = 0
    /\ beta = None
    /\ priorities = <<>>
    /\ appended = 0
    /\ sample_batches = 0
    /\ optimizer_steps = 0
    /\ target_updates = 0
    /\ pre_optimize_calls = 0
    /\ call = NoCall
    /\ replay_buffer = EmptyBuffer
    /\ r2d1_agent = NewAgent

Init == Constructed(ProtocolConfigs)

\* the class chosen were the async_ argument ignored
SelectReplayClsIgnoringAsync(prioritized, is_async) ==
    IF prioritized THEN "PrioritizedReplayFrameBuffer"
    ELSE "UniformReplayFrameBuffer"

\* DQN.initialize_replay_buffer: the class chosen (ReplayBufferCls is None)
SelectReplayCls(prioritized, is_async) ==
    IF prioritized
    THEN (IF is_async THEN "AsyncPrioritizedReplayFrameBuffer"
                      ELSE "PrioritizedReplayFrameBuffer")
    ELSE (IF is_async THEN "AsyncUniformReplayFrameBuffer"
                      ELSE "UniformReplayFrameBuffer")

\* the buffer is built with beta = pri_beta_init when prioritized
InitialBeta == IF cfg.prioritized_replay THEN <<cfg.pri_beta_init, 1>> ELSE None

\* the quotient truncated instead of rounded
UpdatesPerOptimizeFloor(bs) ==
    Max2(1, (cfg.replay_ratio * bs) \div cfg.batch_size)

\* DQN.initialize: updates_per_optimize
UpdatesPerOptimize(bs) ==
    Max2(1, PyRound(cfg.replay_ratio * bs, cfg.batch_size))

\* the quotient taken by the training batch size instead of the sampler's
MinItrLearnByBatchSize(bs) == cfg.min_steps_learn \div cfg.batch_size

\* DQN.initialize / async_initialize: min_itr_learn
MinItrLearn(bs) == cfg.min_steps_learn \div bs

\* DQN.optim_initialize: pri_beta_itr
PriBetaItr(bs) ==
    IF cfg.prioritized_replay THEN Some(Max2(1, cfg.pri_beta_steps \div bs))
    ELSE None

Untouched ==
    UNCHANGED << cfg, update_counter, priorities, appended, sample_batches,
                 optimizer_steps, target_updates, pre_optimize_calls, call,
                 replay_buffer, r2d1_agent >>

\* DQN.initialize(agent, n_itr, batch_spec, mid_batch_reset, examples)
initialize(bs, mbr) ==
    /\ stage = "constructed"
    /\ async_' = FALSE
    /\ sampler_bs' = bs
    /\ mid_batch_reset' = mbr
    /\ updates_per_optimize' = UpdatesPerOptimize(bs)
    /\ min_itr_learn' = MinItrLearn(bs)
    /\ ReplayCls' = SelectReplayCls(cfg.prioritized_replay, FALSE)
    /\ beta' = InitialBeta
    /\ pri_beta_itr' = PriBetaItr(bs)
    /\ stage' = "ready"
    /\ Untouched

\* DQN.async_initialize(agent, sampler_n_itr, batch_spec, mid_batch_reset, ...)
async_initialize(bs, mbr) ==
    /\ stage = "constructed"
    /\ async_' = TRUE
    /\ ReplayCls' = SelectReplayCls(cfg.prioritized_replay, TRUE)
    /\ beta' = InitialBeta
    /\ mid_batch_reset' = mbr
    /\ sampler_bs' = bs
    /\ updates_per_optimize' = cfg.updates_per_sync
    /\ min_itr_learn' = MinItrLearn(bs)
    /\ stage' = "async_initialized"
    /\ UNCHANGED pri_beta_itr
    /\ Untouched

\* DQN.optim_initialize(rank), called by the async runner after forking
optim_initialize ==
    /\ stage = "async_initialized"
    /\ pri_beta_itr' = PriBetaItr(sampler_bs)
    /\ stage' = "ready"
    /\ UNCHANGED << async_, sampler_bs, mid_batch_reset, updates_per_optimize,
                    min_itr_learn, ReplayCls, beta >>
    /\ Untouched

(***************************************************************************)
(* The loss.  A sampled batch is a sequence of samples                     *)
(*   [qs, action, target_qs, next_qs, return_, done, done_n, is_weights,   *)
(*    kl_sum]                                                              *)
(* where qs = agent(agent_inputs), target_qs = agent.target(target_inputs) *)
(* and next_qs = agent(target_inputs) are the networks' outputs for the    *)
(* sample, and kl_sum is the sum of logarithms of cat_dqn.py lines 67-69   *)
(* before it is clamped.                                                   *)
(***************************************************************************)
Float(b) == IF b THEN 1 ELSE 0

\* discount ** n_step_return = Gamma / Scale
Gamma == Pow(cfg.discount[1], cfg.n_step_return)
Scale == Pow(cfg.discount[2], cfg.n_step_return)

\* torch.argmax(v, dim=-1): the first index of the largest entry
ArgMax(v) ==
    CHOOSE i \in DOMAIN v :
        /\ \A j \in DOMAIN v : v[j] <= v[i]
        /\ \A j \in DOMAIN v : j < i => v[j] < v[i]

\* torch.max(v, dim=-1).values
MaxValue(v) == CHOOSE x \in {v[i] : i \in DOMAIN v} : \A j \in DOMAIN v : v[j] <= x

RECURSIVE SumSeq(_)
SumSeq(v) == IF v = <<>> THEN 0 ELSE Head(v) + SumSeq(Tail(v))

\* rlpyt.algos.utils.valid_from_done: 1 up to and including the first done
valid_from_done(done) ==
    [i \in 1..Len(done) |->
        1 - Min2(1, SumSeq([j \in 1..(i - 1) |-> Float(done[j])]))]

\* DQN.loss, dqn.py 396-402: target_q of one sample
TargetQ(s) ==
    IF cfg.double_dqn THEN s.target_qs[ArgMax(s.next_qs)]
    ELSE MaxValue(s.target_qs)

\* the target without the (1 - done_n) factor
DqnTargetAlwaysBootstrap(s) == s.return_ * Scale + Gamma * TargetQ(s)

\* DQN.loss, dqn.py 403-404: y of one sample, over Scale
DqnTarget(s) ==
    s.return_ * Scale + (1 - Float(s.done_n)) * (Gamma * TargetQ(s))

\* the errors taken as delta, without abs() and the clamp
DqnGetLossValuesSigned(q, done, weigths, target) ==
    IF ~mid_batch_reset
    THEN [raised |-> "NotImplementedError", loss |-> None,
          td_abs_errors |-> <<>>]
    ELSE [raised |-> "none", loss |-> None,
          td_abs_errors |-> [i \in 1..Len(q) |-> target[i] - q[i]]]

\* the commented-out masking of dqn.py 340-342 in place of the raise
DqnGetLossValuesMasked(q, done, weigths, target) ==
    [raised |-> "none", loss |-> None,
     td_abs_errors |->
        [i \in 1..Len(q) |-> Abs(target[i] - q[i]) * valid_from_done(done)[i]]]

\* DQN._get_loss_values(q, done, weigths, target); q and target over Scale,
\* weigths in tenths; loss is a fraction, td_abs_errors are over Scale
DqnGetLossValues(q, done, weigths, target) ==
    LET B == Len(q)
        delta == [i \in 1..B |-> target[i] - q[i]]
        abs_delta == [i \in 1..B |-> Abs(delta[i])]
        clip == IF IsNone(cfg.delta_clip) THEN 0 ELSE Val(cfg.delta_clip) * Scale
        \* 2 * Scale^2 * losses
        huber == [i \in 1..B |->
                    IF IsNone(cfg.delta_clip) \/ abs_delta[i] <= clip
                    THEN delta[i] * delta[i]
                    ELSE clip * (2 * abs_delta[i] - clip)]
        losses == IF cfg.prioritized_replay
                  THEN [i \in 1..B |-> huber[i] * weigths[i]]
                  ELSE huber
        td_abs_errors == IF IsNone(cfg.delta_clip) THEN abs_delta
                         ELSE [i \in 1..B |-> Min2(Max2(abs_delta[i], 0), clip)]
        den == 2 * Scale * Scale * B * (IF cfg.prioritized_replay THEN 10 ELSE 1)
    IN  IF ~mid_batch_reset
        THEN [raised |-> "NotImplementedError", loss |-> None,
              td_abs_errors |-> <<>>]
        ELSE [raised |-> "none", loss |-> Some(<<SumSeq(losses), den>>),
              td_abs_errors |-> td_abs_errors]

\* DQN.loss(samples)
DqnLoss(batch) ==
    LET B == Len(batch)
        q == [i \in 1..B |-> batch[i].qs[batch[i].action] * Scale]
        y == [i \in 1..B |-> DqnTarget(batch[i])]
        weigths == IF cfg.prioritized_replay
                   THEN Some([i \in 1..B |-> batch[i].is_weights]) ELSE None
        done == [i \in 1..B |-> batch[i].done]
        r == DqnGetLossValues(q, done,
                 IF IsNone(weigths) THEN <<>> ELSE Val(weigths), y)
    IN  [raised |-> r.raised, loss |-> r.loss,
         td_abs_errors |-> r.td_abs_errors, target |-> y]

\* CategoricalDQN.loss, cat_dqn.py 113-114: z = linspace(V_min, V_max, n_atoms)
Atoms ==
    [j \in 1..cfg.n_atoms |->
        cfg.V_min + (j - 1) * ((cfg.V_max - cfg.V_min) \div (cfg.n_atoms - 1))]

\* CategoricalDQN.loss, cat_dqn.py 117-120: next_z of one sample, over Scale
CatNextZ(s) ==
    [j \in 1..cfg.n_atoms |->
        LET next_z == (1 - Float(s.done_n)) * (Atoms[j] * Gamma)
        IN  Min2(Max2(s.return_ * Scale + next_z, cfg.V_min * Scale),
                 cfg.V_max * Scale)]

\* CategoricalDQN._get_loss_values, from the clamp of KL_div on (line 70);
\* the cross-entropy loss is a sum of logarithms and is not computed
CatGetLossValues(kl_sum, done) ==
    LET B == Len(kl_sum)
        KL_div == [i \in 1..B |-> DClamp(kl_sum[i], EPS, InvEPS)]
        valid == valid_from_done(done)
    IN  IF ~mid_batch_reset
        THEN [raised |-> "none", loss |-> None,
              td_abs_errors |-> [i \in 1..B |-> DTimes(KL_div[i], valid[i])]]
        ELSE [raised |-> "none", loss |-> None, td_abs_errors |-> KL_div]

\* CategoricalDQN.loss(samples)
CatLoss(batch) ==
    LET B == Len(batch)
        r == CatGetLossValues([i \in 1..B |-> batch[i].kl_sum],
                              [i \in 1..B |-> batch[i].done])
    IN  [raised |-> r.raised, loss |-> r.loss,
         td_abs_errors |-> r.td_abs_errors,
         target |-> [i \in 1..B |-> CatNextZ(batch[i])]]

\* self.loss(samples_from_replay), by class
Loss(batch) == IF cfg.algo = "DQN" THEN DqnLoss(batch) ELSE CatLoss(batch)

(***************************************************************************)
(* optimize_agent.  The running call is a record st of the fields the call *)
(* changes; log lists, in order, the calls it makes on the replay buffer,  *)
(* the optimizer and the agent.                                            *)
(***************************************************************************)
Ev(op, k) == [op |-> op, batch |-> k]
Do(st, op, k) == [st EXCEPT !.log = Append(@, Ev(op, k))]

Failed(st) == st.raised # "none"

\* replay_buffer.sample_batch(batch_size), the k-th of the call
SampleBatch(st, k) ==
    [Do(st, "sample_batch", k) EXCEPT !.sample_batches = @ + 1]

\* optimizer.step(), dqn.py line 215
OptimizerStep(st, k) ==
    [Do(st, "optimizer_step", k) EXCEPT !.optimizer_steps = @ + 1]

\* the priority update without its test of prioritized_replay
UpdateBatchPrioritiesAlways(st, k, td_abs_errors) ==
    [Do(st, "update_batch_priorities", k) EXCEPT !.priorities = td_abs_errors]

\* dqn.py lines 216-217; k names the batch the errors were computed from
UpdateBatchPriorities(st, k, td_abs_errors) ==
    IF cfg.prioritized_replay
    THEN [Do(st, "update_batch_priorities", k) EXCEPT
             !.priorities = td_abs_errors]
    ELSE st

\* DQN._apply_optimization from the result of self.loss on: lines 211-221
ApplyLoss(st, k, out) ==
    IF out.raised # "none"
    THEN [st EXCEPT !.raised = out.raised, !.out = out]
    ELSE [UpdateBatchPriorities(OptimizerStep(st, k), k, out.td_abs_errors)
             EXCEPT !.opt_info = Append(@, k), !.out = out]

\* DQN._apply_optimization(samples_from_replay, opt_info); k names the batch
ApplyOptimization(st, k, batch) ==
    ApplyLoss([Do(st, "zero_grad", 0) EXCEPT !.batch = batch], k, Loss(batch))

\* DQN.optimize_agent, lines 247-248
UpdateTarget(st) ==
    IF st.update_counter % cfg.target_update_interval = 0
    THEN [Do(st, "update_target", 0) EXCEPT !.target_updates = @ + 1]
    ELSE st

\* the counter tested before it is incremented
CountUpdateTestFirst(st) ==
    IF Failed(st) THEN st
    ELSE [UpdateTarget(st) EXCEPT !.update_counter = @ + 1]

\* DQN.optimize_agent, lines 246-248, reached when the update did not raise
CountUpdate(st) ==
    IF Failed(st) THEN st
    ELSE UpdateTarget([st EXCEPT !.update_counter = @ + 1])

\* DQN.optimize_agent, lines 243-248: updates k, k + 1, ..., updates_per_optimize
RECURSIVE UpdateLoop(_, _, _)
UpdateLoop(k, st, batches) ==
    IF k > updates_per_optimize \/ Failed(st) THEN st
    ELSE UpdateLoop(k + 1,
             CountUpdate(ApplyOptimization(SampleBatch(st, k), k, batches[k])),
             batches)

\* DQN.update_itr_hyperparams(itr)
UpdateItrHyperparams(st, itr) ==
    IF ~cfg.prioritized_replay THEN st
    ELSE IF ~(itr <= Val(pri_beta_itr)) THEN st
    ELSE
    LET d == Val(pri_beta_itr) - min_itr_learn
        n == Max2(0, itr - min_itr_learn)
        \* prog = min(1, n / d) as a fraction with a positive denominator
        prog == IF d > 0 THEN <<Min2(n, d), d>> ELSE <<-n, -d>>
        new_beta == << prog[1] * cfg.pri_beta_final
                         + (prog[2] - prog[1]) * cfg.pri_beta_init, prog[2] >>
    IN  IF d = 0 THEN [st EXCEPT !.raised = "ZeroDivisionError"]
        ELSE [Do(st, "set_beta", 0) EXCEPT !.beta = new_beta]

\* appending whether or not samples were given
AddSamplesAlways(st, itr, samples) ==
    [Do(st, "append_samples", 0) EXCEPT !.appended = @ + 1]

\* DQN.add_samples_to_buffer(itr, samples); itr >= 0 always holds here
AddSamplesToBuffer(st, itr, samples) ==
    IF samples
    THEN [Do(st, "append_samples", 0) EXCEPT !.appended = @ + 1]
    ELSE st

\* DQN.pre_optimize_process()
PreOptimizeProcess(st) ==
    [Do(st, "pre_optimize_process", 0) EXCEPT !.pre_optimize_calls = @ + 1]

\* DQN.optimize_agent, line 231
EffectiveItr(itr, sampler_itr) ==
    IF IsNone(sampler_itr) THEN itr ELSE Val(sampler_itr)

\* the gate opening one iteration early
WarmUpOneShort(itr) == itr + 1 < min_itr_learn

\* DQN.optimize_agent, lines 237-238
WarmUp(itr) == itr < min_itr_learn

\* DQN.optimize_agent, lines 240-241
AtFirstLearningItr(itr) == itr = min_itr_learn

\* DQN.optimize_agent, line 249, reached when no update raised
FinishUpdates(st, itr) ==
    IF Failed(st) THEN st ELSE UpdateItrHyperparams(st, itr)

\* DQN.optimize_agent, lines 236-250
Learn(st, itr, batches) ==
    IF WarmUp(itr) THEN st
    ELSE FinishUpdates(
             UpdateLoop(1,
                 IF AtFirstLearningItr(itr) THEN PreOptimizeProcess(st) ELSE st,
                 batches),
             itr)

\* the fields an optimize_agent call may change, as the call starts
CallStart ==
    [ log |-> <<>>, raised |-> "none", opt_info |-> <<>>,
      batch |-> <<>>, out |-> <<>>,
      update_counter |-> update_counter, beta |-> beta,
      priorities |-> priorities, appended |-> appended,
      sample_batches |-> sample_batches,
      optimizer_steps |-> optimizer_steps,
      target_updates |-> target_updates,
      pre_optimize_calls |-> pre_optimize_calls ]

\* DQN.optimize_agent(itr, samples, sampler_itr), samples given or None
RunOptimizeAgent(itr_arg, samples, sampler_itr, batches) ==
    Learn(AddSamplesToBuffer(CallStart, EffectiveItr(itr_arg, sampler_itr),
                             samples),
          EffectiveItr(itr_arg, sampler_itr), batches)

optimize_agent(itr_arg, samples, sampler_itr, batches) ==
    /\ stage = "ready"
    /\ \E st \in {RunOptimizeAgent(itr_arg, samples, sampler_itr, batches)} :
        /\ update_counter' = st.update_counter
        /\ beta' = st.beta
        /\ priorities' = st.priorities
        /\ appended' = st.appended
        /\ sample_batches' = st.sample_batches
        /\ optimizer_steps' = st.optimizer_steps
        /\ target_updates' = st.target_updates
        /\ pre_optimize_calls' = st.pre_optimize_calls
        /\ call' = [ n |-> call.n + 1,
                     itr |-> EffectiveItr(itr_arg, sampler_itr),
                     samples |-> samples,
                     log |-> st.log,
                     result |-> IF st.raised # "none" THEN st.raised
                                ELSE "returned",
                     opt_info |-> st.opt_info,
                     batch |-> st.batch,
                     out |-> st.out ]
    /\ UNCHANGED << cfg, stage, async_, sampler_bs, mid_batch_reset,
                    updates_per_optimize, min_itr_learn, pri_beta_itr,
                    ReplayCls, replay_buffer, r2d1_agent >>

(***************************************************************************)
(* The batches sample_batch returns.                                       *)
(***************************************************************************)
Sample(qs, action, target_qs, next_qs, return_, done, done_n, w, kl) ==
    [ qs |-> qs, action |-> action, target_qs |-> target_qs,
      next_qs |-> next_qs, return_ |-> return_, done |-> done,
      done_n |-> done_n, is_weights |-> w, kl_sum |-> kl ]

\* two batches of two samples: one with a zero TD error and a terminal first
\* sample, one without
ReplayBatches ==
    { << Sample(<<0, 1>>, 1, <<2, 0>>, <<0, 1>>, 0, TRUE, TRUE, 10, Dec(2, -1)),
         Sample(<<0, 1>>, 2, <<0, 1>>, <<1, 0>>, 1, FALSE, FALSE, 5, Dec(5, -7)) >>,
      << Sample(<<1, 1>>, 1, <<0, 1>>, <<0, 1>>, -1, FALSE, FALSE, 5, Dec(3, 7)),
         Sample(<<0, 1>>, 1, <<2, 0>>, <<1, 1>>, 0, FALSE, TRUE, 10, Dec(-1, -3)) >> }

\* the batches the loss is checked on: every single sample of a class's
\* domain, pairs for the masking across the batch, and the batches above
KlSums == {Dec(-1, -3), DZero, Dec(5, -7), Dec(2, -1), Dec(3, 7)}

DqnSamples ==
    { Sample(qs, a, tq, nq, r, d, dn, w, DZero) :
        qs \in {<<0, 1>>, <<1, 1>>}, a \in 1..2,
        tq \in {<<0, 1>>, <<2, 0>>, <<0, 0>>},
        nq \in {<<0, 1>>, <<1, 0>>, <<1, 1>>},
        r \in -1..1, d \in BOOLEAN, dn \in BOOLEAN, w \in {5, 10} }

CatSamples ==
    { Sample(<<0, 1>>, 1, <<0, 1>>, <<0, 1>>, r, d, dn, 10, kl) :
        r \in {-1, 0, 2}, d \in BOOLEAN, dn \in BOOLEAN, kl \in KlSums }

CatPairSamples == {s \in CatSamples : s.return_ = 0 /\ ~s.done_n}

LossBatches ==
    ReplayBatches \cup
    (IF cfg.algo = "DQN" THEN {<<s>> : s \in DqnSamples}
     ELSE {<<s>> : s \in CatSamples}
          \cup {<<s, t>> : s \in CatPairSamples, t \in CatPairSamples})

\* the first optimize_agent call of a run, on any of the batches
first_optimize_agent ==
    /\ stage = "ready"
    /\ call.n = 0
    /\ \E batches \in [1..updates_per_optimize -> LossBatches] :
          IF async_ THEN optimize_agent(0, FALSE, Some(0), batches)
          ELSE optimize_agent(0, TRUE, None, batches)

\* the synchronous runner: itr = 0, 1, 2, ..., each call with the sampler's batch
optimize_agent_sync ==
    /\ stage = "ready"
    /\ ~async_
    /\ call.n <= MaxItr
    /\ \E batches \in [1..updates_per_optimize -> ReplayBatches] :
          optimize_agent(call.n, TRUE, None, batches)

\* the asynchronous runner: samples = None, and sampler_itr is whatever the
\* sampler has reached, so it may repeat or skip values
optimize_agent_async ==
    /\ stage = "ready"
    /\ async_
    /\ call.n < MaxCalls
    /\ \E sampler_itr \in 0..MaxItr,
          batches \in [1..updates_per_optimize -> ReplayBatches] :
          /\ call.n > 0 => sampler_itr >= call.itr
          /\ optimize_agent(call.n, FALSE, Some(sampler_itr), batches)

Next ==
    \/ \E bs \in SamplerBatchSizes, mbr \in BOOLEAN : initialize(bs, mbr)
    \/ \E bs \in SamplerBatchSizes, mbr \in BOOLEAN : async_initialize(bs, mbr)
    \/ optim_initialize
    \/ optimize_agent_sync
    \/ optimize_agent_async

Spec == Init /\ [][Next]_vars

\* the loss on every batch: the constructor's loss hyperparameters vary and
\* one call is made
InitLoss == Constructed({c \in LossConfigs : c.min_steps_learn = 0})

NextLoss ==
    \/ \E bs \in SamplerBatchSizes, mbr \in BOOLEAN : initialize(bs, mbr)
    \/ \E bs \in SamplerBatchSizes, mbr \in BOOLEAN : async_initialize(bs, mbr)
    \/ optim_initialize
    \/ first_optimize_agent

SpecLoss == InitLoss /\ [][NextLoss]_vars

(***************************************************************************)
(* The shared-memory replay buffer of the asynchronous runner: the memory  *)
(* copier appends, the learner samples and updates priorities.  The Async  *)
(* buffer classes are not part of the sources at hand; the steps follow    *)
(* the buffer's specification (sections 4.6 and 5).                        *)
(***************************************************************************)
\* the classes with the synchronization layer
HasSyncLayer(cls) ==
    cls \in {"AsyncUniformReplayFrameBuffer", "AsyncPrioritizedReplayFrameBuffer"}

\* the slots one append_samples call writes, starting at the cursor
Span(cursor) == {(cursor.t_write + k) % RingT : k \in 0..(ChunkT - 1)}

\* the slots of the append in flight
InFlight(rb) == IF rb.writer.pc = "idle" THEN {} ELSE Span(rb.cursor)

\* the slots written according to a published cursor
Written(cursor) ==
    IF cursor.wrapped THEN Slots ELSE 0..(cursor.t_write - 1)

\* the cursor after an append
Advance(cursor) ==
    [ t_write |-> (cursor.t_write + ChunkT) % RingT,
      wrapped |-> cursor.wrapped \/ cursor.t_write + ChunkT >= RingT ]

\* the handshake: a region being copied out is not overwritten, a region
\* being appended is not sampled
MayOverwrite(rb) ==
    HasSyncLayer(ReplayCls) =>
        \/ rb.reader.pc # "copying"
        \/ rb.reader.batch \cap Span(rb.cursor) = {}

MaySample(rb, batch) ==
    HasSyncLayer(ReplayCls) => batch \cap InFlight(rb) = {}

BufferUntouched ==
    UNCHANGED << cfg, stage, async_, sampler_bs, mid_batch_reset,
                 updates_per_optimize, min_itr_learn, pri_beta_itr, ReplayCls,
                 update_counter, beta, priorities, appended, sample_batches,
                 optimizer_steps, target_updates, pre_optimize_calls, call,
                 r2d1_agent >>

\* memory copier: append_samples starts
append_samples_begin ==
    /\ stage # "constructed"
    /\ async_
    /\ replay_buffer.writer.pc = "idle"
    /\ replay_buffer.epoch < MaxAppends
    /\ MayOverwrite(replay_buffer)
    /\ replay_buffer' =
          [replay_buffer EXCEPT !.writer = [pc |-> "writing", written |-> 0]]
    /\ BufferUntouched

\* memory copier: append_samples writes the next slot of its chunk, with the
\* default priority
append_samples_write ==
    /\ replay_buffer.writer.pc = "writing"
    /\ replay_buffer.writer.written < ChunkT
    /\ \E t \in {(replay_buffer.cursor.t_write + replay_buffer.writer.written)
                    % RingT} :
          replay_buffer' =
             [replay_buffer EXCEPT !.slots[t] = replay_buffer.epoch + 1,
                                   !.priority[t] = 1,
                                   !.writer.written = @ + 1]
    /\ BufferUntouched

\* memory copier: append_samples publishes the new cursor and returns
append_samples_publish ==
    /\ replay_buffer.writer.pc = "writing"
    /\ replay_buffer.writer.written = ChunkT
    /\ replay_buffer' =
          [replay_buffer EXCEPT !.cursor = Advance(@),
                                !.epoch = @ + 1,
                                !.writer = [pc |-> "idle", written |-> 0]]
    /\ BufferUntouched

\* learner: sample_batch reads the published cursor and picks its slots
sample_batch_begin ==
    /\ stage = "ready"
    /\ async_
    /\ replay_buffer.reader.pc = "idle"
    /\ \E batch \in SUBSET Written(replay_buffer.cursor) :
          /\ batch # {}
          /\ Cardinality(batch) <= cfg.batch_size
          /\ MaySample(replay_buffer, batch)
          /\ replay_buffer' =
                [replay_buffer EXCEPT !.reader =
                    [pc |-> "copying", epoch |-> replay_buffer.epoch,
                     batch |-> batch, snap |-> replay_buffer.slots,
                     copied |-> {}]]
    /\ BufferUntouched

\* learner: sample_batch copies one of its slots out
sample_batch_copy ==
    /\ replay_buffer.reader.pc = "copying"
    /\ \E t \in replay_buffer.reader.batch :
          /\ \A p \in replay_buffer.reader.copied : p[1] # t
          /\ replay_buffer' =
                [replay_buffer EXCEPT !.reader.copied =
                    @ \cup {<<t, replay_buffer.slots[t]>>}]
    /\ BufferUntouched

\* learner: sample_batch returns the batch
sample_batch_return ==
    /\ replay_buffer.reader.pc = "copying"
    /\ Cardinality(replay_buffer.reader.copied)
          = Cardinality(replay_buffer.reader.batch)
    /\ replay_buffer' = [replay_buffer EXCEPT !.reader.pc = "sampled"]
    /\ BufferUntouched

\* learner: the update is done; update_batch_priorities when prioritized
learner_update_batch_priorities ==
    /\ replay_buffer.reader.pc = "sampled"
    /\ replay_buffer' =
          [replay_buffer EXCEPT
              !.priority = IF cfg.prioritized_replay
                           THEN [t \in Slots |->
                                   IF t \in replay_buffer.reader.batch
                                   THEN 2 ELSE @[t]]
                           ELSE @,
              !.reader = EmptyBuffer.reader]
    /\ BufferUntouched

InitAsync ==
    Constructed({[DefaultConfig EXCEPT !.prioritized_replay = p, !.algo = a] :
                    p \in BOOLEAN, a \in Algos})

NextAsync ==
    \/ \E bs \in SamplerBatchSizes, mbr \in BOOLEAN : async_initialize(bs, mbr)
    \/ optim_initialize
    \/ append_samples_begin
    \/ append_samples_write
    \/ append_samples_publish
    \/ sample_batch_begin
    \/ sample_batch_copy
    \/ sample_batch_return
    \/ learner_update_batch_priorities

SpecAsync == InitAsync /\ [][NextAsync]_vars

(***************************************************************************)
(* The R2D1 agent (rlpyt/agents/dqn/r2d1_agent.py).  A recurrent state is  *)
(* an RnnState(h, c) of tensors [N,B,H], here with H = 1: a sequence of N  *)
(* rows of B numbers.  The stored state is None or <<state>>.              *)
(***************************************************************************)
RnnState(h, c) == [h |-> h, c |-> c]

\* the tensor [N,B] filled with distinct numbers of sign sgn, zeros for v = 0
Fill(v, sgn) ==
    [n \in 1..RnnLayers |->
        [b \in 1..EnvB |-> IF v = 0 THEN 0 ELSE sgn * (100 * v + 10 * n + b)]]

\* the recurrent states the model may return, the all-zeros state among them
ModelStates == {RnnState(Fill(v, 1), Fill(v, -1)) : v \in 0..MaxFill}

\* torch.zeros_like
ZerosLike(t) == [i \in DOMAIN t |-> [j \in DOMAIN t[i] |-> 0]]

\* tensor.transpose(0, 1): [N,B,H] --> [B,N,H]
Transpose01(t) == [j \in DOMAIN t[1] |-> [i \in DOMAIN t |-> t[i][j]]]

\* buffer_func(rnn_state, torch.zeros_like): every field zeroed
BufferZerosLike(state) == RnnState(ZerosLike(state.h), ZerosLike(state.c))

\* buffer_method(prev_rnn_state, "transpose", 0, 1): every field transposed
BufferTranspose(state) == RnnState(Transpose01(state.h), Transpose01(state.c))

\* Python's x or y on an optional namedarraytuple: None is false, a state true
Or(x, y) == IF IsNone(x) THEN y ELSE x

\* RecurrentAgentMixin: the prev_rnn_state property and advance_rnn_state
PrevRnnState(ag) == ag.prev_rnn_state

AdvanceRnnState(ag, new_rnn_state) ==
    [ag EXCEPT !.prev_rnn_state = Some(new_rnn_state), !.advances = @ + 1]

\* the state advanced before the previous one is read
ToAgentStepAdvanceFirst(ag, rnn_state) ==
    [AdvanceRnnState(ag, rnn_state) EXCEPT
        !.agent_info = BufferTranspose(rnn_state)]

\* R2d1AgentBase.to_agent_step(output), output = (q, rnn_state)
ToAgentStep(ag, rnn_state) ==
    AdvanceRnnState(
        [ag EXCEPT !.agent_info =
            BufferTranspose(Val(Or(PrevRnnState(ag),
                                   Some(BufferZerosLike(rnn_state)))))],
        rnn_state)

AgentUntouched ==
    UNCHANGED << cfg, stage, async_, sampler_bs, mid_batch_reset,
                 updates_per_optimize, min_itr_learn, pri_beta_itr, ReplayCls,
                 update_counter, beta, priorities, appended, sample_batches,
                 optimizer_steps, target_updates, pre_optimize_calls, call,
                 replay_buffer >>

\* R2d1AgentBase.step(observation, prev_action, prev_reward): the model is
\* given self.prev_rnn_state and returns (q, rnn_state)
step ==
    /\ r2d1_agent.steps < MaxSteps
    /\ \E rnn_state \in ModelStates :
          r2d1_agent' =
             ToAgentStep([r2d1_agent EXCEPT !.op = "step",
                                            !.steps = @ + 1,
                                            !.fed = PrevRnnState(r2d1_agent),
                                            !.returned = rnn_state],
                         rnn_state)
    /\ AgentUntouched

\* R2d1AgentBase.__call__(observation, prev_action, prev_reward,
\* init_rnn_state): the model's output is returned
agent_call ==
    /\ \E init_rnn_state \in ModelStates, rnn_state \in ModelStates :
          r2d1_agent' = [r2d1_agent EXCEPT !.op = "__call__",
                                           !.output = Some(rnn_state)]
    /\ AgentUntouched

\* R2d1AgentBase.target(observation, prev_action, prev_reward,
\* init_rnn_state): the target model's output is returned
agent_target ==
    /\ \E init_rnn_state \in ModelStates, rnn_state \in ModelStates :
          r2d1_agent' = [r2d1_agent EXCEPT !.op = "target",
                                           !.output = Some(rnn_state)]
    /\ AgentUntouched

InitAgent == Constructed({DefaultConfig})

NextAgent ==
    \/ step
    \/ agent_call
    \/ agent_target

SpecAgent == InitAgent /\ [][NextAgent]_vars

(***************************************************************************)
(* Properties of optimize_agent.  Called holds once a call has been made;  *)
(* IsCall is the step of one call.                                         *)
(***************************************************************************)
Called == call.n > 0
IsCall == call'.n = call.n + 1
Count(log, op) == Cardinality({i \in DOMAIN log : log[i].op = op})
BufferOps == {"append_samples", "sample_batch", "update_batch_priorities",
              "set_beta"}
\* the loss of the configured class raises NotImplementedError
Unsupported == cfg.algo = "DQN" /\ ~mid_batch_reset

\* C1: a call whose effective iteration is below min_itr_learn makes no
\* sample_batch call: it appends the samples it was given and nothing else,
\* returns an empty OptInfo, and leaves update_counter, the priorities, beta
\* and the target network as they were.
WarmUpGate ==
    [][ (IsCall /\ call'.itr < min_itr_learn) =>
          /\ call'.log = (IF call'.samples THEN <<Ev("append_samples", 0)>>
                          ELSE <<>>)
          /\ appended' = appended + Float(call'.samples)
          /\ sample_batches' = sample_batches
          /\ call'.result = "returned"
          /\ call'.opt_info = <<>>
          /\ update_counter' = update_counter
          /\ priorities' = priorities
          /\ beta' = beta
          /\ target_updates' = target_updates
          /\ optimizer_steps' = optimizer_steps ]_vars

\* a warm-up call that was given samples, in a configuration that would
\* otherwise update priorities and beta
WarmUpGateWitness ==
    /\ Called
    /\ call.itr < min_itr_learn
    /\ call.samples
    /\ appended = call.n
    /\ cfg.prioritized_replay

\* the buffer calls of a log, in order
BufferCalls(log) == SelectSeq(log, LAMBDA e : e.op \in BufferOps)

\* every sample_batch of the log is directly followed, among the buffer calls,
\* by one update_batch_priorities of the batch just sampled, and there is no
\* other update_batch_priorities
EachSampleThenItsUpdate(log) ==
    LET b == BufferCalls(log)
    IN  /\ \A i \in DOMAIN b :
              b[i].op = "sample_batch" =>
                  /\ i + 1 \in DOMAIN b
                  /\ b[i + 1] = Ev("update_batch_priorities", b[i].batch)
        /\ \A i \in DOMAIN b :
              b[i].op = "update_batch_priorities" =>
                  /\ i - 1 \in DOMAIN b
                  /\ b[i - 1] = Ev("sample_batch", b[i].batch)

\* C2, as claimed: with prioritized replay every sample_batch is followed by
\* exactly one update_batch_priorities computed from that batch, with no other
\* sample_batch or append_samples between; without it update_batch_priorities
\* is never called.
PriorityUpdateFollowsEverySample ==
    /\ cfg.prioritized_replay => EachSampleThenItsUpdate(call.log)
    /\ ~cfg.prioritized_replay => Count(call.log, "update_batch_priorities") = 0

\* C2, amended: the same, except under DQN with mid_batch_reset false, where
\* the loss raises NotImplementedError: there the one sample_batch of the call
\* is its last buffer call and no update_batch_priorities is made.
PriorityUpdateFollowsCompletedSample ==
    /\ (cfg.prioritized_replay /\ ~Unsupported) =>
          EachSampleThenItsUpdate(call.log)
    /\ (cfg.prioritized_replay /\ Unsupported) =>
          /\ Count(call.log, "update_batch_priorities") = 0
          /\ Count(call.log, "sample_batch") <= 1
          /\ Count(call.log, "sample_batch") = 1 =>
                /\ call.result = "NotImplementedError"
                /\ BufferCalls(call.log)[Len(BufferCalls(call.log))].op
                      = "sample_batch"
    /\ ~cfg.prioritized_replay => Count(call.log, "update_batch_priorities") = 0

\* a call of two or more updates, each sample followed by its priority update
PriorityUpdateWitness ==
    /\ cfg.prioritized_replay
    /\ call.result = "returned"
    /\ Count(call.log, "sample_batch") >= 2
    /\ Count(call.log, "update_batch_priorities") = Count(call.log, "sample_batch")
    /\ priorities # <<>>

\* a / b = c / d for fractions with non-zero denominators
FracEq(x, y) == x[1] * y[2] = y[1] * x[2]
\* a / b <= c / d for fractions with positive denominators
FracLeq(x, y) == x[1] * y[2] <= y[1] * x[2]

\* the value of the linear schedule at itr, d = pri_beta_itr - min_itr_learn
ScheduledBeta(itr, d) ==
    << cfg.pri_beta_init * d
         + (cfg.pri_beta_final - cfg.pri_beta_init) * (itr - min_itr_learn), d >>

\* C4, as claimed: with prioritized replay, a call at itr with
\* min_itr_learn <= itr <= pri_beta_itr gives set_beta the value pri_beta_init
\* + (pri_beta_final - pri_beta_init) * (itr - min_itr_learn) / (pri_beta_itr -
\* min_itr_learn), which is between the endpoints and not below the value
\* before; at itr = pri_beta_itr beta is pri_beta_final; a call at a later itr
\* leaves beta as it is.  (Calls that end in the NotImplementedError of DQN
\* without mid_batch_reset are left aside.)
BetaFollowsLinearSchedule ==
    [][ (IsCall /\ cfg.prioritized_replay /\ ~Unsupported) =>
          LET d == Val(pri_beta_itr) - min_itr_learn
              itr == call'.itr
          IN  /\ (min_itr_learn <= itr /\ itr <= Val(pri_beta_itr)) =>
                    /\ call'.result = "returned"
                    /\ Count(call'.log, "set_beta") = 1
                    /\ d > 0
                    /\ FracEq(beta', ScheduledBeta(itr, d))
                    /\ FracLeq(<<cfg.pri_beta_init, 1>>, beta')
                    /\ FracLeq(beta', <<cfg.pri_beta_final, 1>>)
                    /\ FracLeq(beta, beta')
                    /\ itr = Val(pri_beta_itr) =>
                          FracEq(beta', <<cfg.pri_beta_final, 1>>)
              /\ itr > Val(pri_beta_itr) =>
                    /\ beta' = beta
                    /\ Count(call'.log, "set_beta") = 0 ]_vars

\* what a call under DQN with mid_batch_reset false leaves behind: the append,
\* pre_optimize_process at the first learning iteration, one sample_batch and
\* the optimizer's zero_grad
UnsupportedLog(itr, samples) ==
    (IF samples THEN <<Ev("append_samples", 0)>> ELSE <<>>)
    \o (IF itr = min_itr_learn THEN <<Ev("pre_optimize_process", 0)>> ELSE <<>>)
    \o <<Ev("sample_batch", 1), Ev("zero_grad", 0)>>

LearnerNeverAppends ==
    /\ (Called /\ ~call.samples) =>
          /\ Count(call.log, "append_samples") = 0
          /\ \A i \in DOMAIN call.log :
                call.log[i].op \in BufferOps =>
                    call.log[i].op \in {"sample_batch",
                                        "update_batch_priorities", "set_beta"}
    /\ async_ => appended = 0
    /\ (Called /\ call.samples) =>
          /\ Count(call.log, "append_samples") = 1
          /\ call.log[1].op = "append_samples"
    /\ ~async_ => appended = call.n

\* an asynchronous call that sampled, updated priorities and set beta
LearnerNeverAppendsWitness ==
    /\ async_
    /\ Called
    /\ ~call.samples
    /\ Count(call.log, "sample_batch") >= 2
    /\ Count(call.log, "update_batch_priorities") >= 2
    /\ Count(call.log, "set_beta") = 1

\* updates_per_optimize is max(1, round(replay_ratio * sampler_bs / batch_size))
\* after initialize, stated by the distance to the quotient, and
\* updates_per_sync after async_initialize
UpdatesFixedByConfiguration ==
    LET x == cfg.replay_ratio * sampler_bs
        b == cfg.batch_size
        u == updates_per_optimize
    IN  /\ (stage = "ready" /\ ~async_) =>
              /\ u >= 1
              /\ u = 1 => 2 * x < 3 * b
              /\ u > 1 => /\ 2 * Abs(u * b - x) <= b
                          /\ 2 * Abs(u * b - x) = b => u % 2 = 0
        /\ (stage # "constructed" /\ async_) => u = cfg.updates_per_sync

PreOptimizeOnceBeforeSampling ==
    /\ pre_optimize_calls <= 1
    /\ (sample_batches > 0 \/ optimizer_steps > 0) => pre_optimize_calls = 1
    /\ \A i, j \in DOMAIN call.log :
          (call.log[i].op = "pre_optimize_process"
             /\ call.log[j].op \in {"sample_batch", "optimizer_step"}) => i < j

(***************************************************************************)
(* Properties of the loss, under SpecLoss.                                 *)
(***************************************************************************)
\* C3, as claimed: every error value passed to update_batch_priorities is
\* strictly positive.
ErrorsStrictlyPositive ==
    \A i \in DOMAIN priorities :
        IF cfg.algo = "DQN" THEN priorities[i] > 0
        ELSE DLess(DZero, priorities[i])

\* C3, amended: every error value passed to update_batch_priorities is
\* non-negative and may be zero.  A DQN error is abs(target - q), at most
\* delta_clip when that is set, and zero exactly when target = q; a
\* CategoricalDQN error is between EPS and 1 / EPS, or, with mid_batch_reset
\* false, zero for a sample that valid_from_done masks.
ErrorsNonNegative ==
    /\ priorities # <<>> =>
          /\ cfg.prioritized_replay
          /\ call.result = "returned"
          /\ Len(priorities) = Len(call.batch)
    /\ \A i \in DOMAIN priorities :
          IF cfg.algo = "DQN"
          THEN /\ priorities[i] >= 0
               /\ ~IsNone(cfg.delta_clip) =>
                     priorities[i] <= Val(cfg.delta_clip) * Scale
               /\ priorities[i] = 0 <=>
                     call.out.target[i]
                        = call.batch[i].qs[call.batch[i].action] * Scale
          ELSE \/ /\ ~DLess(priorities[i], EPS)
                  /\ ~DLess(InvEPS, priorities[i])
               \/ /\ priorities[i] = DZero
                  /\ ~mid_batch_reset
                  /\ \E j \in 1..(i - 1) : call.batch[j].done

\* a DQN priority update with a zero error
ErrorsNonNegativeWitness ==
    /\ cfg.algo = "DQN"
    /\ Count(call.log, "update_batch_priorities") = 1
    /\ \E i \in DOMAIN priorities : priorities[i] = 0

\* C6: the DQN target of a sample is return_ when done_n is true and return_ +
\* discount^n_step_return * target_q when it is false, target_q being the
\* largest target-network Q or, under double_dqn, the target-network Q at the
\* first action maximising the online Q; the CategoricalDQN atoms are (within
\* V_min, V_max) return_ when done_n is true and return_ + discount^
\* n_step_return * z when it is false.  Values are over discount's denominator
\* to the power n_step_return.
BootstrapOnlyWhenNotDone ==
    LET n == cfg.n_step_return
        num == Pow(cfg.discount[1], n)
        den == Pow(cfg.discount[2], n)
    IN  \A i \in DOMAIN call.batch :
            LET s == call.batch[i]
                y == call.out.target[i]
            IN  IF cfg.algo = "DQN"
                THEN IF s.done_n THEN y = s.return_ * den
                     ELSE \E a \in DOMAIN s.target_qs :
                            /\ y = s.return_ * den + num * s.target_qs[a]
                            /\ IF cfg.double_dqn
                               THEN /\ \A c \in DOMAIN s.next_qs :
                                          s.next_qs[c] <= s.next_qs[a]
                                    /\ \A c \in 1..(a - 1) :
                                          s.next_qs[c] < s.next_qs[a]
                               ELSE \A c \in DOMAIN s.target_qs :
                                          s.target_qs[c] <= s.target_qs[a]
                ELSE /\ Len(y) = cfg.n_atoms
                     /\ \A j \in 1..cfg.n_atoms :
                          LET z == cfg.V_min + (j - 1) *
                                     ((cfg.V_max - cfg.V_min) \div (cfg.n_atoms - 1))
                              shifted == IF s.done_n THEN s.return_ * den
                                         ELSE s.return_ * den + num * z
                          IN  y[j] = IF shifted < cfg.V_min * den
                                     THEN cfg.V_min * den
                                     ELSE IF shifted > cfg.V_max * den
                                     THEN cfg.V_max * den ELSE shifted

\* a two-step double-DQN target of a sample that is done within the window and
\* whose target_q is not zero
BootstrapWitness ==
    /\ cfg.algo = "DQN"
    /\ call.result = "returned"
    /\ cfg.double_dqn
    /\ cfg.n_step_return = 2
    /\ Len(call.batch) = 1
    /\ call.batch[1].done_n
    /\ call.batch[1].return_ = 1
    /\ call.batch[1].target_qs = <<2, 0>>
    /\ call.batch[1].next_qs = <<1, 1>>
    /\ call.out.target = <<Pow(cfg.discount[2], 2)>>

(***************************************************************************)
(* Properties of the shared-memory buffer, under SpecAsync.                *)
(***************************************************************************)
\* the slots of append c a sampler may be given
VisibleOf(c) ==
    {t \in Written(replay_buffer.cursor) \ InFlight(replay_buffer) :
        replay_buffer.slots[t] = c}

\* every slot copied out held a published chunk, the one it held when the
\* batch was picked
NoPartialChunkObserved ==
    \A p \in replay_buffer.reader.copied :
        /\ p[2] \in 1..replay_buffer.reader.epoch
        /\ p[2] = replay_buffer.reader.snap[p[1]]

FirstOp(log, op) ==
    IF Count(log, op) = 0 THEN 0
    ELSE CHOOSE i \in DOMAIN log :
            /\ log[i].op = op
            /\ \A j \in 1..(i - 1) : log[j].op # op

\* C11: in the synchronous configuration (itr = 0, 1, 2, ..., one sampler
\* batch of sampler_bs steps per call), the call that makes the first
\* sample_batch call has appended its own samples before it, and the steps
\* appended by then, sampler_bs per append_samples call, are at least
\* min_steps_learn.
MinStepsBeforeFirstSample ==
    [][ (IsCall /\ ~async_ /\ sample_batches = 0 /\ sample_batches' > 0) =>
          /\ appended' = call'.itr + 1
          /\ appended' * sampler_bs >= cfg.min_steps_learn
          /\ FirstOp(call'.log, "append_samples") = 1
          /\ FirstOp(call'.log, "sample_batch") > 1 ]_vars

\* the first sample_batch comes at the third call, with min_steps_learn = 2
\* steps wanted and one step per sampler batch
MinStepsBeforeFirstSampleWitness ==
    /\ ~async_
    /\ cfg.min_steps_learn = 2
    /\ sampler_bs = 1
    /\ call.n = 3
    /\ appended = 3
    /\ sample_batches = updates_per_optimize
    /\ Count(call.log, "sample_batch") = updates_per_optimize

\* the optimizer steps among the first i events of a log
StepsUpTo(log, i) ==
    Cardinality({j \in 1..i : log[j].op = "optimizer_step"})

\* an update_target follows event i of the log before any later optimizer step
TargetUpdatedAfter(log, i) ==
    \E m \in (i + 1)..Len(log) :
        /\ log[m].op = "update_target"
        /\ \A j \in (i + 1)..(m - 1) : log[j].op # "optimizer_step"

\* update_counter counts the completed gradient updates and the target network
\* has been updated once per target_update_interval of them
TargetUpdatesAreFloor ==
    /\ ~Called => update_counter = 0
    /\ update_counter = optimizer_steps
    /\ target_updates = update_counter \div cfg.target_update_interval

\* C13: update_counter starts at 0, grows by one per completed gradient update
\* and by nothing else, and is never reset; within a call, update_target is
\* called after exactly those updates that bring update_counter to a multiple
\* of target_update_interval; so after N updates, however they are split
\* across calls, the target network has been updated floor(N /
\* target_update_interval) times.
TargetUpdatePeriodicity ==
    /\ []TargetUpdatesAreFloor
    /\ [][ /\ update_counter' >= update_counter
           /\ ~IsCall => update_counter' = update_counter
           /\ IsCall =>
                /\ update_counter' = update_counter
                      + Count(call'.log, "optimizer_step")
                /\ target_updates' = target_updates
                      + Count(call'.log, "update_target")
                /\ \A i \in DOMAIN call'.log :
                      call'.log[i].op = "optimizer_step" =>
                         (TargetUpdatedAfter(call'.log, i) <=>
                            (update_counter + StepsUpTo(call'.log, i))
                               % cfg.target_update_interval = 0)
                /\ \A m \in DOMAIN call'.log :
                      call'.log[m].op = "update_target" =>
                         StepsUpTo(call'.log, m) >= 1 ]_vars

\* with an interval of 3 and 2 updates per call, the first target update is
\* made in the middle of the second call
TargetUpdatePeriodicityWitness ==
    /\ cfg.target_update_interval = 3
    /\ updates_per_optimize = 2
    /\ update_counter = 4
    /\ target_updates = 1
    /\ \E m \in DOMAIN call.log :
          /\ call.log[m].op = "update_target"
          /\ \E j \in (m + 1)..Len(call.log) : call.log[j].op = "optimizer_step"

(***************************************************************************)
(* Properties of the R2D1 agent, under SpecAgent.                          *)
(***************************************************************************)
IsStep == r2d1_agent'.steps = r2d1_agent.steps + 1

\* the state the model returned at the previous step, None before the first
ReturnedBefore == IF r2d1_agent.steps = 0 THEN None ELSE Some(r2d1_agent.returned)

\* x is a tensor of zeros, of any shape
AllZeros(x) == \A i \in DOMAIN x : \A j \in DOMAIN x[i] : x[i][j] = 0

\* x is [B,N] and holds t, which is [N,B], with its two dimensions exchanged
IsTransposeOf(x, t) ==
    /\ DOMAIN t = 1..RnnLayers
    /\ DOMAIN x = 1..EnvB
    /\ \A b \in 1..EnvB :
          /\ DOMAIN x[b] = 1..RnnLayers
          /\ \A n \in 1..RnnLayers : x[b][n] = t[n][b]

\* what holds of the stored state, whatever is recorded: a step feeds the model
\* the state returned by the step before and stores the state just returned,
\* advancing once; __call__ and target leave the stored state alone
StateThreading ==
    /\ IsStep =>
          /\ r2d1_agent'.fed = ReturnedBefore
          /\ r2d1_agent'.prev_rnn_state = Some(r2d1_agent'.returned)
          /\ r2d1_agent'.advances = r2d1_agent.advances + 1
          /\ r2d1_agent'.op = "step"
    /\ ~IsStep =>
          /\ r2d1_agent'.prev_rnn_state = r2d1_agent.prev_rnn_state
          /\ r2d1_agent'.advances = r2d1_agent.advances
          /\ r2d1_agent'.agent_info = r2d1_agent.agent_info

====
